---------------------------- MODULE Spec2Model ----------------------------
(***************************************************************************)
(* RTF - Reader Text File (src/RTF/rtf.py).                                *)
(*                                                                         *)
(* A state machine of the application: the SQLite store behind             *)
(* DatabaseManager, the widgets AppUI reads and writes, the held result    *)
(* (last_df) and the files export_data writes.  One action per Tk callback *)
(* or user edit; an exception raised inside a callback ends the callback   *)
(* at that point and keeps what it had already changed.                    *)
(*                                                                         *)
(* Texts are sequences of one-character strings.  A table's rows are kept  *)
(* run-length encoded: a run [cells, n] stands for n consecutive identical *)
(* rows, so that tables larger than the LIMIT of search are in reach.      *)
(***************************************************************************)
EXTENDS Integers, Sequences, FiniteSets

VARIABLES
    store,            \* sqlite database: sequence of tables, sqlite_master order
    table_values,     \* table_menu["values"]
    selected_table,   \* selected_table (StringVar of table_menu)
    column_values,    \* column_menu["values"]
    selected_column,  \* selected_column (StringVar of column_menu)
    search_entry,     \* text of search_entry
    last_df,          \* AppUI.last_df
    tree,             \* the Treeview: its columns and its rows
    files,            \* spreadsheet files written by export_data
    outcome,          \* what the last callback did (dialogs shown, exception)
    loads             \* number of files imported so far

vars == <<store, table_values, selected_table, column_values, selected_column,
          search_entry, last_df, tree, files, outcome, loads>>

-----------------------------------------------------------------------------
(* Bounds of the model *)

\* the data rows of an imported file are at most this many runs
MaxRuns == 1
\* the data rows of a file of an earlier session are at most this many runs
MaxStoredRuns == 2
\* number of rows of a large run
BigRun == 600
\* files imported in one behaviour
MaxLoads == 2

(* Program constant *)

\* LIMIT 500 of the query text
LIMIT == 500

-----------------------------------------------------------------------------
(* Texts *)

Letters == {"a", "b", "c", "d", "r", "s", "t", "v", "x", "A"}
Digits == {"0", "1", "2", "3", "4", "5", "6", "7", "8", "9"}

\* ASCII case folding, as SQLite does for identifiers and for LIKE
Lower(c) == IF c = "A" THEN "a" ELSE c

LowerText(s) == [i \in 1..Len(s) |-> Lower(s[i])]

\* positions of character c in text s
Positions(s, c) == {i \in 1..Len(s) : s[i] = c}

Max(S) == CHOOSE m \in S : \A k \in S : k <= m

Min2(a, b) == IF a <= b THEN a ELSE b

\* str.replace(old, new) for one-character old and new
Replace(s, old, new) == [i \in 1..Len(s) |-> IF s[i] = old THEN new ELSE s[i]]

\* str.endswith
EndsWith(s, suf) ==
    /\ Len(s) >= Len(suf)
    /\ SubSeq(s, Len(s) - Len(suf) + 1, Len(s)) = suf

RECURSIVE Join(_, _)
\* the line of a delimited file that holds the given fields
Join(fields, d) ==
    IF fields = <<>> THEN <<>>
    ELSE IF Len(fields) = 1 THEN fields[1]
    ELSE fields[1] \o <<d>> \o Join(Tail(fields), d)

\* an SQL identifier token that can be written bare
IsIdentifier(s) ==
    /\ s # <<>>
    /\ s[1] \in Letters \cup {"_"}
    /\ \A i \in 1..Len(s) : s[i] \in Letters \cup Digits \cup {"_"}

\* an SQL integer literal
IsNumber(s) == s # <<>> /\ \A i \in 1..Len(s) : s[i] \in Digits

-----------------------------------------------------------------------------
(* Run-length encoded rows *)

\* NULL of SQLite (NaN of pandas).  A text read_csv stores is never empty,
\* so the empty text stands for it.
Null == <<>>

RECURSIVE RowCount(_)
RowCount(rows) ==
    IF rows = <<>> THEN 0 ELSE Head(rows).n + RowCount(Tail(rows))

RECURSIVE FirstRows(_, _)
\* the first k rows
FirstRows(rows, k) ==
    IF rows = <<>> \/ k <= 0 THEN <<>>
    ELSE IF Head(rows).n <= k
         THEN <<Head(rows)>> \o FirstRows(Tail(rows), k - Head(rows).n)
         ELSE <<[cells |-> Head(rows).cells, n |-> k]>>

\* pd.DataFrame(): no columns, no rows
EmptyFrame == [columns |-> <<>>, rows |-> <<>>]

\* the check of export_data, were it to look at the columns only
DfEmpty_columns_only(df) == Len(df.columns) = 0

\* DataFrame.empty: some axis has length 0
DfEmpty(df) == Len(df.columns) = 0 \/ RowCount(df.rows) = 0

-----------------------------------------------------------------------------
(* SQLite, as DatabaseManager's statements use it *)

RECURSIVE Like(_, _)
\* text LIKE pattern: % is any run of characters, _ is any one character,
\* any other character matches itself ignoring ASCII case
Like(p, s) ==
    IF p = <<>> THEN s = <<>>
    ELSE IF Head(p) = "%"
         THEN Like(Tail(p), s) \/ (s # <<>> /\ Like(p, Tail(s)))
         ELSE /\ s # <<>>
              /\ (Head(p) = "_" \/ Lower(Head(p)) = Lower(Head(s)))
              /\ Like(Tail(p), Tail(s))

\* position in the store of the table a bare identifier names (names are
\* compared ignoring case), 0 when there is none
TableIndex(st, name) ==
    LET S == {i \in 1..Len(st) : LowerText(st[i].name) = LowerText(name)}
    IN  IF S = {} THEN 0 ELSE CHOOSE i \in S : TRUE

\* position of the column a bare identifier names, 0 when there is none
ColumnIndex(columns, name) ==
    LET S == {i \in 1..Len(columns) : LowerText(columns[i]) = LowerText(name)}
    IN  IF S = {} THEN 0 ELSE CHOOSE i \in S : TRUE

\* CREATE TABLE refuses two columns whose names are equal ignoring case
DuplicateColumns(columns) ==
    \E i, j \in 1..Len(columns) :
        i < j /\ LowerText(columns[i]) = LowerText(columns[j])

\* to_sql, were it called with if_exists="append": an existing table keeps
\* its columns and rows and gets the new rows after them
to_sql_append(st, table_name, df) ==
    LET S == {i \in 1..Len(st) : st[i].name = table_name}
    IN  IF S = {}
        THEN [raised |-> DuplicateColumns(df.columns),
              store  |-> IF DuplicateColumns(df.columns) THEN st
                         ELSE Append(st, [name    |-> table_name,
                                          columns |-> df.columns,
                                          rows    |-> df.rows])]
        ELSE [raised |-> FALSE,
              store  |-> [i \in 1..Len(st) |->
                            IF i \in S
                            THEN [st[i] EXCEPT !.rows = st[i].rows \o df.rows]
                            ELSE st[i]]]

\* DataFrame.to_sql(table_name, conn, if_exists="replace", index=False):
\* when sqlite_master holds the name, DROP TABLE (committed at once, the
\* connection has no open transaction); then CREATE TABLE; then the INSERTs.
\* A CREATE TABLE that fails raises and leaves the store as the DROP left it.
to_sql_replace(st, table_name, df) ==
    LET dropped == SelectSeq(st, LAMBDA t : t.name # table_name)
        fails   == \/ DuplicateColumns(df.columns)
                   \/ TableIndex(dropped, table_name) # 0
    IN  IF fails
        THEN [raised |-> TRUE, store |-> dropped]
        ELSE [raised |-> FALSE,
              store  |-> Append(dropped, [name    |-> table_name,
                                          columns |-> df.columns,
                                          rows    |-> df.rows])]

create_table_from_df(st, table_name, df) == to_sql_replace(st, table_name, df)

get_tables(st) == [i \in 1..Len(st) |-> st[i].name]

\* PRAGMA table_info({table}): the argument must be one token; a name that
\* is no table gives no rows, and no error
get_columns(st, table) ==
    IF ~IsIdentifier(table)
    THEN [raised |-> TRUE, columns |-> <<>>]
    ELSE LET i == TableIndex(st, table)
         IN  [raised |-> FALSE,
              columns |-> IF i = 0 THEN <<>> ELSE st[i].columns]

\* the expression {column} of the WHERE clause: a bare identifier is a column
\* of the table or an error, an integer literal is its own value, any other
\* text of the model's inputs (empty, or holding a delimiter) does not parse
ColumnExprOk(columns, column) ==
    \/ IsIdentifier(column) /\ ColumnIndex(columns, column) # 0
    \/ IsNumber(column)

ColumnExprValue(columns, column, cells) ==
    IF IsNumber(column) THEN column
    ELSE cells[ColumnIndex(columns, column)]

\* WHERE {column} LIKE '%value%': NULL LIKE anything is NULL, not true
RowMatches(columns, column, value, cells) ==
    LET v == ColumnExprValue(columns, column, cells)
    IN  v # Null /\ Like(<<"%">> \o value \o <<"%">>, v)

\* the query, were its LIMIT clause left out
search_unlimited(st, table, column, value) ==
    LET i == IF IsIdentifier(table) THEN TableIndex(st, table) ELSE 0
    IN  IF i = 0 \/ ~ColumnExprOk(st[i].columns, column)
        THEN [raised |-> TRUE, df |-> EmptyFrame]
        ELSE [raised |-> FALSE,
              df |-> [columns |-> st[i].columns,
                      rows |-> SelectSeq(st[i].rows,
                                         LAMBDA r : RowMatches(st[i].columns,
                                                               column, value,
                                                               r.cells))]]

\* SELECT * FROM {table} WHERE {column} LIKE ? LIMIT 500
search(st, table, column, value) ==
    LET i == IF IsIdentifier(table) THEN TableIndex(st, table) ELSE 0
    IN  IF i = 0 \/ ~ColumnExprOk(st[i].columns, column)
        THEN [raised |-> TRUE, df |-> EmptyFrame]
        ELSE [raised |-> FALSE,
              df |-> [columns |-> st[i].columns,
                      rows |-> FirstRows(
                          SelectSeq(st[i].rows,
                                    LAMBDA r : RowMatches(st[i].columns, column,
                                                          value, r.cells)),
                          LIMIT)]]

-----------------------------------------------------------------------------
(* DataImporter *)

\* os.path.basename
basename(p) ==
    LET S == Positions(p, "/")
    IN  IF S = {} THEN p ELSE SubSeq(p, Max(S) + 1, Len(p))

\* os.path.splitext(p)[0] of a base name: cut at the last dot, unless only
\* dots precede it
splitext_root(p) ==
    LET D == Positions(p, ".")
    IN  IF D = {} THEN p
        ELSE IF \E k \in 1..(Max(D) - 1) : p[k] # "."
             THEN SubSeq(p, 1, Max(D) - 1)
             ELSE p

\* pd.read_csv(file_path, delimiter=...): a line is split at the delimiter
\* given, which need not be the one the file was written with; blank lines
\* are skipped; an empty field is NaN
read_csv(f, delimiter) ==
    LET Fields(cells) == IF delimiter = f.delim THEN cells
                         ELSE <<Join(cells, f.delim)>>
        kept == SelectSeq(f.rows, LAMBDA r : Join(r.cells, f.delim) # <<>>)
    IN  [columns |-> Fields(f.header),
         rows    |-> [k \in 1..Len(kept) |->
                         [cells |-> Fields(kept[k].cells), n |-> kept[k].n]]]

table_name_of(file_path) ==
    Replace(Replace(splitext_root(basename(file_path)), "-", "_"), " ", "_")

\* import_file after the dialog returned a path
import_file(st, f) ==
    LET delimiter == IF EndsWith(f.path, <<".", "c", "s", "v">>) THEN "," ELSE ";"
        df == read_csv(f, delimiter)
        table_name == table_name_of(f.path)
        r == create_table_from_df(st, table_name, df)
    IN  [raised |-> r.raised, store |-> r.store, table_name |-> table_name,
         df |-> df, delimiter |-> delimiter,
         existed |-> \E i \in 1..Len(st) : st[i].name = table_name]

-----------------------------------------------------------------------------
(* Inputs: what the user picks in the dialogs and types into the widgets *)

\* "d/s r-t.csv", "a.b.txt"
Paths ==
    { <<"d", "/", "s", " ", "r", "-", "t", ".", "c", "s", "v">>,
      <<"a", ".", "b", ".", "t", "x", "t">> }

\* header rows: names are not empty and differ as strings (read_csv renames
\* neither) and hold no delimiter
Headers == { << <<"a">>, <<"b">> >>, << <<"a">>, <<"A">> >> }

\* fields of data rows: letters only, so every column is text, and none of
\* the words read_csv takes for a missing value; the empty field is a
\* missing value
FilledTexts == { <<"a">> }
CellTexts == { <<>> } \cup FilledTexts

RunSizes == {1, BigRun}

\* the data rows of a file of w columns: at most `runs` runs, of rows over
\* `texts` repeated one of `sizes` times
Bodies(w, texts, sizes, runs) ==
    UNION { [1..k -> [cells : [1..w -> texts], n : sizes]] : k \in 0..runs }

\* a delimited text file: where it is, the delimiter it was written with,
\* its header row and its data rows
Files ==
    UNION { [path : Paths, delim : {",", ";"}, header : {h},
             rows : Bodies(Len(h), FilledTexts, {BigRun}, MaxRuns)]
            : h \in Headers }

\* the files an earlier session may have imported before a session of
\* imports: "d/s r-t.csv" with header a,b and some rows
EarlierFiles ==
    { f \in Files : /\ f.path = <<"d", "/", "s", " ", "r", "-", "t", ".", "c", "s", "v">>
                    /\ f.delim = ","
                    /\ f.header = << <<"a">>, <<"b">> >>
                    /\ f.rows # <<>> }

\* the files an earlier session may have imported before a session of
\* searches
StoredFiles ==
    UNION { [path : { <<"t", ".", "c", "s", "v">> }, delim : {","}, header : {h},
             rows : Bodies(Len(h), CellTexts, RunSizes, MaxStoredRuns)]
            : h \in { << <<"a">> >>, << <<"a">>, <<"b">> >> } }

Patterns == { <<>>, <<"a">>, <<"b">>, <<"_">>, <<"%">> }

TypedTables == { <<"z">> }

TypedColumns == { <<"A">>, <<"1">>, <<"z">> }

ExportPaths == { <<"o">> }

Range(s) == {s[i] : i \in 1..Len(s)}

-----------------------------------------------------------------------------
(* AppUI *)

\* load_columns for the table given: the widgets after it
load_columns(st, table, cv, sc, tr) ==
    LET r == get_columns(st, table)
    IN  IF r.raised
        THEN [raised |-> TRUE, column_values |-> cv, selected_column |-> sc,
              tree |-> tr]
        ELSE [raised |-> FALSE,
              column_values   |-> r.columns,
              selected_column |-> IF r.columns # <<>> THEN r.columns[1] ELSE sc,
              tree            |-> [columns |-> r.columns, rows |-> <<>>]]

\* load_tables: the widgets after it
load_tables(st, stb, cv, sc, tr) ==
    LET tables == get_tables(st)
        lc == load_columns(st, tables[1], cv, sc, tr)
    IN  IF tables = <<>>
        THEN [raised |-> FALSE, table_values |-> tables, selected_table |-> stb,
              column_values |-> cv, selected_column |-> sc, tree |-> tr]
        ELSE [raised |-> lc.raised, table_values |-> tables,
              selected_table  |-> tables[1],
              column_values   |-> lc.column_values,
              selected_column |-> lc.selected_column,
              tree            |-> lc.tree]

\* AppUI.__init__ on the database.db given: the connection, the empty
\* last_df, the empty widgets, then load_tables
Started(db) ==
    LET ui == load_tables(db, <<>>, <<>>, <<>>, [columns |-> <<>>, rows |-> <<>>])
    IN  /\ store = db
        /\ table_values = ui.table_values
        /\ selected_table = ui.selected_table
        /\ column_values = ui.column_values
        /\ selected_column = ui.selected_column
        /\ tree = ui.tree
        /\ search_entry = <<>>
        /\ last_df = EmptyFrame
        /\ files = {}
        /\ outcome = [op |-> "init", status |-> "ok"]
        /\ loads = 0

\* database.db is new, or an earlier session left one table in it
Init ==
    \/ Started(<<>>)
    \/ \E f \in EarlierFiles : Started(import_file(<<>>, f).store)

\* "Importar CSV/TXT" with a file picked
import_data(f) ==
    /\ loads < MaxLoads
    /\ loads' = loads + 1
    /\ LET r  == import_file(store, f)
           ui == load_tables(r.store, selected_table, column_values,
                             selected_column, tree)
       IN  /\ store' = r.store
           /\ IF r.raised
              THEN /\ outcome' = [op |-> "import", status |-> "error",
                                  table |-> r.table_name,
                                  existed |-> r.existed]
                   /\ UNCHANGED <<table_values, selected_table, column_values,
                                  selected_column, tree>>
              ELSE /\ outcome' = [op |-> "import", status |-> "ok",
                                  table |-> r.table_name,
                                  existed |-> r.existed,
                                  header |-> f.header, df |-> r.df,
                                  delimited |-> r.delimiter = f.delim,
                                  refresh_raised |-> ui.raised]
                   /\ table_values' = ui.table_values
                   /\ selected_table' = ui.selected_table
                   /\ column_values' = ui.column_values
                   /\ selected_column' = ui.selected_column
                   /\ tree' = ui.tree
    /\ UNCHANGED <<search_entry, last_df, files>>

\* "Importar CSV/TXT" with the dialog cancelled: import_file returns None
import_cancel == UNCHANGED vars

\* the user picks an entry of table_menu: <<ComboboxSelected>> runs load_columns
select_table(t) ==
    /\ t \in Range(table_values)
    /\ selected_table' = t
    /\ LET lc == load_columns(store, t, column_values, selected_column, tree)
       IN  /\ column_values' = lc.column_values
           /\ selected_column' = lc.selected_column
           /\ tree' = lc.tree
           /\ outcome' = [op |-> "load_columns",
                          status |-> IF lc.raised THEN "error" ELSE "ok",
                          columns |-> lc.column_values]
    /\ UNCHANGED <<store, table_values, search_entry, last_df, files, loads>>

\* the user picks an entry of column_menu
select_column(c) ==
    /\ c \in Range(column_values)
    /\ selected_column' = c
    /\ outcome' = [op |-> "edit", status |-> "ok"]
    /\ UNCHANGED <<store, table_values, selected_table, column_values,
                   search_entry, last_df, tree, files, loads>>

\* the user types into table_menu (no event is bound to it)
type_table(s) ==
    /\ selected_table' = s
    /\ outcome' = [op |-> "edit", status |-> "ok"]
    /\ UNCHANGED <<store, table_values, column_values, selected_column,
                   search_entry, last_df, tree, files, loads>>

\* the user types into column_menu
type_column(s) ==
    /\ selected_column' = s
    /\ outcome' = [op |-> "edit", status |-> "ok"]
    /\ UNCHANGED <<store, table_values, selected_table, column_values,
                   search_entry, last_df, tree, files, loads>>

\* the user types into search_entry
type_search(p) ==
    /\ search_entry' = p
    /\ outcome' = [op |-> "edit", status |-> "ok"]
    /\ UNCHANGED <<store, table_values, selected_table, column_values,
                   selected_column, last_df, tree, files, loads>>

\* "Pesquisar"
search_data ==
    LET r == search(store, selected_table, selected_column, search_entry)
    IN  /\ IF r.raised
           THEN /\ outcome' = [op |-> "search", status |-> "error"]
                /\ UNCHANGED <<last_df, tree>>
           ELSE /\ outcome' = [op |-> "search", status |-> "ok"]
                /\ last_df' = r.df
                /\ tree' = [tree EXCEPT !.rows = r.df.rows]
        /\ UNCHANGED <<store, table_values, selected_table, column_values,
                       selected_column, search_entry, files, loads>>

\* "Exportar Excel" while last_df.empty: the warning, and nothing else
export_empty ==
    /\ DfEmpty(last_df)
    /\ outcome' = [op |-> "export", status |-> "warning"]
    /\ UNCHANGED <<store, table_values, selected_table, column_values,
                   selected_column, search_entry, last_df, tree, files, loads>>

\* "Exportar Excel" with a path picked: to_excel writes header and rows
export_data(file_path) ==
    /\ ~DfEmpty(last_df)
    /\ files' = {x \in files : x.path # file_path}
                    \cup {[path |-> file_path, content |-> last_df]}
    /\ outcome' = [op |-> "export", status |-> "ok"]
    /\ UNCHANGED <<store, table_values, selected_table, column_values,
                   selected_column, search_entry, last_df, tree, loads>>

\* "Exportar Excel" with the dialog cancelled
export_cancel ==
    /\ ~DfEmpty(last_df)
    /\ UNCHANGED vars

\* A session on a new database.db: files are imported, tables and columns
\* are picked from the menus, searched with the entry left empty, exported.
Next ==
    \/ \E f \in Files : import_data(f)
    \/ import_cancel
    \/ \E t \in Range(table_values) : select_table(t)
    \/ \E c \in Range(column_values) : select_column(c)
    \/ search_data
    \/ export_empty
    \/ \E file_path \in ExportPaths : export_data(file_path)
    \/ export_cancel

Spec == Init /\ [][Next]_vars

\* AppUI.__init__ on the database.db an earlier session left: one table
InitQuery == \E f \in StoredFiles : Started(import_file(<<>>, f).store)

\* A session of searches on it: the menus and the entry are edited freely
NextQuery ==
    \/ \E c \in Range(column_values) : select_column(c)
    \/ \E s \in TypedTables : type_table(s)
    \/ \E s \in TypedColumns : type_column(s)
    \/ \E p \in Patterns : type_search(p)
    \/ search_data

SpecQuery == InitQuery /\ [][NextQuery]_vars

-----------------------------------------------------------------------------
(* Properties *)

\* the table the last search named, when it names one
QueriedTable == store[TableIndex(store, selected_table)]

\* the column names list_columns gives for the table of the menus
ListedColumns == Range(get_columns(store, selected_table).columns)

\* p is a substring of s, letters compared as the store's collation does
Contains(s, p) ==
    \E i \in 0..(Len(s) - Len(p)) :
        LowerText(SubSeq(s, i + 1, i + Len(p))) = LowerText(p)

SafeChars == Letters \cup Digits \cup {"_"}

C2_LiteralSubstring ==
    (/\ outcome.op = "search" /\ outcome.status = "ok"
     /\ selected_column \in ListedColumns)
    => LET t == QueriedTable
           k == CHOOSE j \in 1..Len(t.columns) : t.columns[j] = selected_column
           hits == SelectSeq(t.rows, LAMBDA r : /\ r.cells[k] # Null
                                                /\ Contains(r.cells[k], search_entry))
       IN  /\ \A i \in 1..Len(last_df.rows) :
                Contains(last_df.rows[i].cells[k], search_entry)
           /\ RowCount(hits) <= 500 => last_df.rows = hits

\* C3: search with the empty pattern on a column of the table gives
\* min(row_count, 500) rows, rows whose cell is missing included.
C3_EmptyPatternAllRows ==
    (/\ outcome.op = "search"
     /\ search_entry = <<>>
     /\ TableIndex(store, selected_table) # 0
     /\ selected_column \in ListedColumns)
    => /\ outcome.status = "ok"
       /\ RowCount(last_df.rows) = Min2(RowCount(QueriedTable.rows), 500)

\* C4: an import that succeeds leaves exactly one table of the derived name,
\* holding the columns and rows read from this file and nothing of an earlier
\* table of that name, and leaves every other table as it was.
C4_ReloadReplaces ==
    [][ (outcome'.op = "import" /\ outcome'.status = "ok")
        => LET n == outcome'.table
           IN  /\ Cardinality({i \in 1..Len(store') : store'[i].name = n}) = 1
               /\ \A i \in 1..Len(store') :
                    store'[i].name = n =>
                        /\ store'[i].columns = outcome'.df.columns
                        /\ store'[i].rows = outcome'.df.rows
               /\ {store'[i] : i \in {j \in 1..Len(store') : store'[j].name # n}}
                    = {store[i] : i \in {j \in 1..Len(store) : store[j].name # n}}
      ]_vars

\* a file has just been imported over a table of its name, beside another
\* table
C4_Witness ==
    /\ outcome.op = "import" /\ outcome.status = "ok"
    /\ outcome.existed
    /\ Len(store) = 2
    /\ RowCount(outcome.df.rows) > 0

\* C5: an import that fails leaves the store as it was, the earlier table of
\* that name included.
C5_FailedLoadKeepsTable ==
    [][ (outcome'.op = "import" /\ outcome'.status = "error")
        => store' = store ]_vars

\* C6: a search whose column is not among list_columns(table) fails and
\* leaves the held result as it was.
C6_UnknownColumnFails ==
    [][ (/\ outcome'.op = "search"
         /\ ~get_columns(store, selected_table).raised
         /\ selected_column \notin ListedColumns)
        => (outcome'.status = "error" /\ last_df' = last_df) ]_vars

\* C7: list_columns of a table that is not in the store fails; it gives no
\* column list, not even an empty one.
C7_UnknownTableFails ==
    (/\ outcome.op = "load_columns"
     /\ \A i \in 1..Len(store) : store[i].name # selected_table)
    => outcome.status = "error"

\* C8: after the import of a file written with the delimiter of its
\* extension, list_columns of the derived name is the header row.
C8_ColumnsAreHeader ==
    (outcome.op = "import" /\ outcome.status = "ok" /\ outcome.delimited)
    => LET r == get_columns(store, outcome.table)
       IN  ~r.raised /\ r.columns = outcome.header

\* C9: the name of every loaded table consists of letters, digits and
\* underscores only.
C9_SafeTableNames ==
    \A i \in 1..Len(store) :
        \A k \in 1..Len(store[i].name) : store[i].name[k] \in SafeChars

\* C10: export with a held result of no rows gives the warning and writes
\* nothing; a file is written only from a held result of at least one row.
C10_ExportNeedsRows ==
    [][ /\ (files' # files \/ (outcome'.op = "export" /\ outcome'.status = "ok"))
            => RowCount(last_df.rows) >= 1
        /\ (outcome'.op = "export" /\ RowCount(last_df.rows) = 0)
            => (outcome'.status = "warning" /\ files' = files) ]_vars

\* export was refused for the result of a search that returned no rows
C10_Witness ==
    /\ outcome.op = "export" /\ outcome.status = "warning"
    /\ Len(last_df.columns) > 0
    /\ RowCount(last_df.rows) = 0

=============================================================================
